---- MODULE Spec2Model ----
(***************************************************************************)
(* Model of the ledger core of star_bot: src/src/db/database.py            *)
(* (class Database over one SQLite file in WAL mode), as it is driven by   *)
(* concurrently running handlers.  Every call opens its own connection;    *)
(* a connection's transaction is DEFERRED: a SELECT takes a snapshot of    *)
(* the committed database, the first writing statement takes the single    *)
(* write lock of the file.  Closing a connection with an open transaction  *)
(* rolls the transaction back.                                             *)
(***************************************************************************)
EXTENDS Integers, Sequences, FiniteSets, TLC

\* ---------------------------------------------------------------- bounds
\* number of Database calls started in one behaviour
MaxCalls == 3

\* ---------------------------------------------------------------- inputs
Procs == {"p1", "p2"}
UserIds == {1, 2}
Amounts == {1, 2}
ChargeIds == {"c1", "c2"}
\* SQL NULL / Python None in a TEXT column or argument
None == "<NULL>"
Usernames == {None, "ann"}
\* gift_amount, the caller of transfer, passes the sender's Telegram username
\* (user 1 has one, user 2 has none) and to_username=None
FromUsername(user_id) == IF user_id = 1 THEN "ann" ELSE None
ToUsernames == {None}
\* SQL NULL in the INTEGER column transactions.related_user_id
NoUser == 0
\* no connection holds the write lock
NoWriter == "none"

\* now: the wall clock in whole seconds, as datetime('now') reads it
\* hist: a user paging through the history (send_history, page after page)
\* telegram: the charge ids Telegram has refunded (refund_star_payment)
VARIABLES db, writer, pc, call, view, row, last, ncalls, now, hist, telegram

vars == <<db, writer, pc, call, view, row, last, ncalls, now, hist, telegram>>

\* ------------------------------------------------------------ the tables
\* The four tables after CREATE_SQL ran on a fresh file: all empty.
\* users: user_id -> [username, balance]; the other tables are sequences
\* whose index is the AUTOINCREMENT id (rows are never deleted).
EmptyDb ==
    [users |-> << >>, payments |-> << >>, transfers |-> << >>, transactions |-> << >>]

NoCall ==
    [op |-> "none", user_id |-> 1, username |-> None, amount |-> 1,
     charge_id |-> None, to_user |-> 1, to_username |-> None, limit |-> 0]

NoResult == [kind |-> "none", val |-> ""]
Return(v) == [kind |-> "return", val |-> v]
Raise(v) == [kind |-> "raise", val |-> v]

\* ------------------------------------------------------- SQL statements
\* An upsert that writes the row anew (INSERT OR REPLACE).
_ensure_user_tx_replace(d, user_id, username) ==
    [d EXCEPT !.users =
        [u \in (DOMAIN d.users) \cup {user_id} |->
            IF u # user_id THEN d.users[u]
            ELSE [username |-> username, balance |-> 0]]]

\* INSERT INTO users ... ON CONFLICT(user_id) DO UPDATE SET
\*   username = COALESCE(excluded.username, users.username)
_ensure_user_tx(d, user_id, username) ==
    [d EXCEPT !.users =
        [u \in (DOMAIN d.users) \cup {user_id} |->
            IF u # user_id THEN d.users[u]
            ELSE IF user_id \in DOMAIN d.users
                 THEN [d.users[u] EXCEPT !.username =
                          IF username # None THEN username ELSE @]
                 ELSE [username |-> username, balance |-> 0]]]

\* SELECT balance FROM users WHERE user_id=? ; 0 when there is no row
_get_balance_tx(d, user_id) ==
    IF user_id \in DOMAIN d.users THEN d.users[user_id].balance ELSE 0

\* An UPDATE that stores the delta as the balance.
UpdateBalance_overwrites(d, user_id, delta) ==
    [d EXCEPT !.users =
        [u \in DOMAIN d.users |->
            IF u = user_id THEN [d.users[u] EXCEPT !.balance = delta]
            ELSE d.users[u]]]

\* UPDATE users SET balance = balance + delta WHERE user_id=?
UpdateBalance(d, user_id, delta) ==
    [d EXCEPT !.users =
        [u \in DOMAIN d.users |->
            IF u = user_id THEN [d.users[u] EXCEPT !.balance = @ + delta]
            ELSE d.users[u]]]

\* A duplicate check that never finds the charge id.
PaymentsByCharge_finds_none(d, charge_id) == {}

\* SELECT ... FROM payments WHERE charge_id=? : the ids of the matching rows
PaymentsByCharge(d, charge_id) ==
    {i \in DOMAIN d.payments : d.payments[i].charge_id = charge_id}

\* INSERT INTO payments(user_id, amount, currency, charge_id, refunded);
\* created_at takes its default, datetime('now')
InsertPayment(d, user_id, amount, charge_id) ==
    [d EXCEPT !.payments = Append(@,
        [user_id |-> user_id, amount |-> amount, charge_id |-> charge_id,
         refunded |-> FALSE, created_at |-> now])]

\* payments.charge_id TEXT NOT NULL UNIQUE.  TRUE when a new row would break it.
payments_charge_id_unique(d, charge_id) ==
    \E i \in DOMAIN d.payments : d.payments[i].charge_id = charge_id

\* idx_transactions_charge_id: UNIQUE on transactions(charge_id)
\* WHERE charge_id IS NOT NULL.  TRUE when a new row would break it.
idx_transactions_charge_id(d, charge_id) ==
    /\ charge_id # None
    /\ \E i \in DOMAIN d.transactions : d.transactions[i].charge_id = charge_id

\* An INSERT that takes the place of the newest ledger entry.
_insert_transaction_replaces(d, user_id, tx_type, amount, related_user_id, charge_id, balance_after) ==
    LET e == [user_id |-> user_id, type |-> tx_type, amount |-> amount,
              related_user_id |-> related_user_id, charge_id |-> charge_id,
              balance_after |-> balance_after, created_at |-> now]
    IN [d EXCEPT !.transactions =
           IF @ = << >> THEN <<e>> ELSE [@ EXCEPT ![Len(@)] = e]]

\* INSERT INTO transactions(...) as issued by _insert_transaction;
\* created_at takes its default, datetime('now')
_insert_transaction(d, user_id, tx_type, amount, related_user_id, charge_id, balance_after) ==
    [d EXCEPT !.transactions = Append(@,
        [user_id |-> user_id, type |-> tx_type, amount |-> amount,
         related_user_id |-> related_user_id, charge_id |-> charge_id,
         balance_after |-> balance_after, created_at |-> now])]

\* A rollback that undoes balances and ledger but keeps the payments table.
rollback_keeps_flags(committed, working) ==
    [committed EXCEPT !.payments = working.payments]

\* A rollback that keeps the transaction's writes, as a commit would.
rollback_keeps_writes(committed, working) == working

\* conn.rollback(), and conn.close() with a transaction open: the committed
\* database stays, the transaction's writes are dropped.
rollback(committed, working) == committed

\* A connection closed without its commit: the writes are dropped.
commit_forgotten(committed, working) == committed

\* conn.commit(): the transaction's writes become the committed database.
commit(committed, working) == working

\* ------------------------------------------------------------------ Init
\* last: the outcome of the call that ended most recently, as the handler
\* awaiting it receives it, with the arguments and locals of that call.
\* nobody is paging through a history
NoHist ==
    [user_id |-> NoUser, limit |-> 0, page |-> 0, items |-> << >>,
     first |-> << >>, done |-> FALSE]

NoLast ==
    [call |-> NoCall, result |-> NoResult, row |-> << >>,
     current_balance |-> << >>]

Init ==
    /\ db = EmptyDb
    /\ writer = NoWriter
    /\ pc = [p \in Procs |-> "idle"]
    /\ call = [p \in Procs |-> NoCall]
    /\ view = [p \in Procs |-> EmptyDb]
    /\ row = [p \in Procs |-> << >>]
    /\ last = NoLast
    /\ ncalls = 0
    /\ now = 0
    /\ hist = NoHist
    /\ telegram = {}

\* A handler awaits a Database method on a fresh connection.
Idle(p) == pc[p] = "idle" /\ ncalls < MaxCalls

\* The call of connection p with arguments c ends: the value is returned or
\* the exception propagates, and the finally clause closes the connection,
\* which rolls back what is open and releases the write lock.
Finish(p, c, r, rw, bal) ==
    /\ pc' = [pc EXCEPT ![p] = "idle"]
    /\ call' = [call EXCEPT ![p] = NoCall]
    /\ view' = [view EXCEPT ![p] = EmptyDb]
    /\ row' = [row EXCEPT ![p] = << >>]
    /\ writer' = IF writer = p THEN NoWriter ELSE writer
    /\ last' = [call |-> c, result |-> r, row |-> rw, current_balance |-> bal]
    /\ UNCHANGED <<now, hist, telegram>>

\* ---------------------------------------------------------- add_purchase
\* add_purchase crediting the balance without writing the ledger entry.
add_purchase_writes_no_entry(d, c) ==
    UpdateBalance(InsertPayment(d, c.user_id, c.amount, c.charge_id),
                  c.user_id, c.amount)

\* add_purchase crediting the balance twice.
add_purchase_writes_twice(d, c) ==
    LET d1 == InsertPayment(d, c.user_id, c.amount, c.charge_id)
        d2 == UpdateBalance(d1, c.user_id, 2 * c.amount)
    IN _insert_transaction(d2, c.user_id, "purchase", c.amount, NoUser,
                           c.charge_id, _get_balance_tx(d2, c.user_id))

\* What add_purchase writes once the charge id is found to be new.
add_purchase_writes(d, c) ==
    LET d1 == InsertPayment(d, c.user_id, c.amount, c.charge_id)
        d2 == UpdateBalance(d1, c.user_id, c.amount)
        balance_after == _get_balance_tx(d2, c.user_id)
    IN _insert_transaction(d2, c.user_id, "purchase", c.amount, NoUser,
                           c.charge_id, balance_after)

\* BEGIN; _ensure_user_tx: the first statement writes, so it takes the write
\* lock on the latest commit.  SELECT id, refunded FROM payments WHERE
\* charge_id=? ; rollback and return False when a row exists, else the three
\* writes (an INSERT that breaks a UNIQUE constraint raises IntegrityError).
add_purchase_run(p, c) ==
    LET d == _ensure_user_tx(db, c.user_id, c.username) IN
    IF PaymentsByCharge(d, c.charge_id) # {}
    THEN /\ db' = rollback(db, d)
         /\ Finish(p, c, Return("False"), << >>, << >>)
    ELSE IF \/ payments_charge_id_unique(d, c.charge_id)
            \/ idx_transactions_charge_id(d, c.charge_id)
    THEN /\ db' = rollback(db, d)
         /\ Finish(p, c, Raise("IntegrityError"), << >>, << >>)
    ELSE /\ writer' = p
         /\ call' = [call EXCEPT ![p] = c]
         /\ view' = [view EXCEPT ![p] = add_purchase_writes(d, c)]
         /\ pc' = [pc EXCEPT ![p] = "ap_commit"]
         /\ UNCHANGED <<db, row, last, now, hist, telegram>>

\* The call: it runs when the write lock is free, and waits in its first
\* write while another connection holds the lock.
add_purchase(p, user_id, username, amount, charge_id) ==
    LET c == [NoCall EXCEPT !.op = "add_purchase", !.user_id = user_id,
                 !.username = username, !.amount = amount,
                 !.charge_id = charge_id]
    IN /\ Idle(p)
       /\ ncalls' = ncalls + 1
       /\ IF writer = NoWriter
          THEN add_purchase_run(p, c)
          ELSE /\ call' = [call EXCEPT ![p] = c]
               /\ pc' = [pc EXCEPT ![p] = "ap_wait"]
               /\ UNCHANGED <<db, writer, view, row, last, now, hist, telegram>>

\* The lock is released within the busy timeout: the waiting call goes on.
add_purchase_resume(p) ==
    /\ pc[p] = "ap_wait"
    /\ writer = NoWriter
    /\ add_purchase_run(p, call[p])
    /\ UNCHANGED ncalls

\* conn.commit(); return True
add_purchase_commit(p) ==
    /\ pc[p] = "ap_commit"
    /\ db' = commit(db, view[p])
    /\ Finish(p, call[p], Return("True"), << >>, << >>)
    /\ UNCHANGED ncalls

\* -------------------------------------------------------------- transfer
\* transfer debiting the sender without crediting the receiver.
transfer_writes_no_credit(d, c) ==
    LET d1 == UpdateBalance(d, c.user_id, 0 - c.amount)
        d3 == [d1 EXCEPT !.transfers = Append(@,
                  [from_user_id |-> c.user_id, to_user_id |-> c.to_user,
                   amount |-> c.amount])]
        d4 == _insert_transaction(d3, c.user_id, "gift_out", c.amount,
                  c.to_user, None, _get_balance_tx(d3, c.user_id))
    IN _insert_transaction(d4, c.to_user, "gift_in", c.amount,
                  c.user_id, None, _get_balance_tx(d3, c.to_user))

\* What transfer writes once the sender is found to have the funds.
transfer_writes(d, c) ==
    LET d1 == UpdateBalance(d, c.user_id, 0 - c.amount)
        d2 == UpdateBalance(d1, c.to_user, c.amount)
        d3 == [d2 EXCEPT !.transfers = Append(@,
                  [from_user_id |-> c.user_id, to_user_id |-> c.to_user,
                   amount |-> c.amount])]
        sender_after == _get_balance_tx(d3, c.user_id)
        receiver_after == _get_balance_tx(d3, c.to_user)
        d4 == _insert_transaction(d3, c.user_id, "gift_out", c.amount,
                                  c.to_user, None, sender_after)
    IN _insert_transaction(d4, c.to_user, "gift_in", c.amount,
                           c.user_id, None, receiver_after)

\* No funds check inside the transaction (the caller checked before).
insufficient_funds_unchecked(sender_balance, amount) == FALSE

\* A funds check that only refuses a sender already in debt.
insufficient_funds_only_debt(sender_balance, amount) == sender_balance < 0

\* if sender_balance < amount
insufficient_funds(sender_balance, amount) == sender_balance < amount

\* BEGIN; both _ensure_user_tx (the first takes the write lock); the sender's
\* balance is read; rollback and ValueError when it is below amount, else the
\* two UPDATEs and three INSERTs.
transfer_run(p, c) ==
    LET d == _ensure_user_tx(_ensure_user_tx(db, c.user_id, c.username),
                             c.to_user, c.to_username)
        sender_balance == _get_balance_tx(d, c.user_id)
    IN IF insufficient_funds(sender_balance, c.amount)
       THEN /\ db' = rollback(db, d)
            /\ Finish(p, c, Raise("ValueError: insufficient_funds"),
                      << >>, <<sender_balance>>)
       ELSE /\ writer' = p
            /\ call' = [call EXCEPT ![p] = c]
            /\ view' = [view EXCEPT ![p] = transfer_writes(d, c)]
            /\ pc' = [pc EXCEPT ![p] = "tr_commit"]
            /\ UNCHANGED <<db, row, last, now, hist, telegram>>

\* A validation that lets a transfer of nothing through.
amount_negative(amount) == amount < 0

\* if amount <= 0: raise ValueError("amount must be positive")
amount_not_positive(amount) == amount <= 0

\* The call: amount <= 0 raises before a connection is opened; else it runs
\* when the write lock is free, and waits in its first write while another
\* connection holds the lock.
transfer_call(p, c) ==
    IF amount_not_positive(c.amount)
    THEN /\ Finish(p, c, Raise("ValueError: amount must be positive"), << >>, << >>)
         /\ UNCHANGED db
    ELSE IF writer = NoWriter
    THEN transfer_run(p, c)
    ELSE /\ call' = [call EXCEPT ![p] = c]
         /\ pc' = [pc EXCEPT ![p] = "tr_wait"]
         /\ UNCHANGED <<db, writer, view, row, last, now, hist, telegram>>

\* The call, on a fresh connection.
transfer(p, from_user, to_user, amount, from_username, to_username) ==
    /\ Idle(p)
    /\ ncalls' = ncalls + 1
    /\ transfer_call(p, [NoCall EXCEPT !.op = "transfer", !.user_id = from_user,
                            !.username = from_username, !.amount = amount,
                            !.to_user = to_user, !.to_username = to_username])

\* The lock is released within the busy timeout: the waiting call goes on.
transfer_resume(p) ==
    /\ pc[p] = "tr_wait"
    /\ writer = NoWriter
    /\ transfer_run(p, call[p])
    /\ UNCHANGED ncalls

\* conn.commit(); return transfer_id (the lastrowid of the transfers INSERT)
transfer_commit(p) ==
    /\ pc[p] = "tr_commit"
    /\ db' = commit(db, view[p])
    /\ Finish(p, call[p], Return(ToString(Len(view[p].transfers))), << >>, << >>)
    /\ UNCHANGED ncalls

\* ----------------------------------------------------------- mark_refund
\* SELECT id, amount, refunded FROM payments WHERE charge_id=? AND user_id=?
\* and fetchone(): the row, or nothing
SelectPayment(d, charge_id, user_id) ==
    LET ids == {i \in DOMAIN d.payments :
                   /\ d.payments[i].charge_id = charge_id
                   /\ d.payments[i].user_id = user_id}
    IN IF ids = {} THEN << >>
       ELSE LET i == CHOOSE j \in ids : \A k \in ids : j <= k
            IN <<[id |-> i, amount |-> d.payments[i].amount,
                  refunded |-> d.payments[i].refunded]>>

\* A rejection that leaves the payment flagged as refunded.
mark_refund_reject_flags(committed, c, r) ==
    IF r = << >> THEN committed
    ELSE [committed EXCEPT !.payments = [i \in DOMAIN committed.payments |->
             IF i = r[1].id THEN [committed.payments[i] EXCEPT !.refunded = TRUE]
             ELSE committed.payments[i]]]

\* await conn.rollback(); return False: the committed database after one of
\* the three checks of mark_refund turned the call down (nothing was written
\* since BEGIN).
mark_refund_reject(committed, c, r) == rollback(committed, committed)

\* BEGIN; the SELECT opens a read transaction on the committed database; each
\* of the three checks rolls back and returns False.
mark_refund_run(p, c) ==
    LET r == SelectPayment(db, c.charge_id, c.user_id)
        bal == _get_balance_tx(db, c.user_id)
    IN IF r = << >> \/ r[1].refunded
       THEN /\ db' = mark_refund_reject(db, c, r)
            /\ Finish(p, c, Return("False"), r, << >>)
       ELSE IF r[1].amount # c.amount
       THEN /\ db' = mark_refund_reject(db, c, r)
            /\ Finish(p, c, Return("False"), r, << >>)
       ELSE IF bal < c.amount
       THEN /\ db' = mark_refund_reject(db, c, r)
            /\ Finish(p, c, Return("False"), r, <<bal>>)
       ELSE /\ call' = [call EXCEPT ![p] = c]
            /\ row' = [row EXCEPT ![p] = r]
            /\ view' = [view EXCEPT ![p] = db]
            /\ pc' = [pc EXCEPT ![p] = "mr_update"]
            /\ UNCHANGED <<db, writer, last, now, hist, telegram>>

\* The call, on a fresh connection.
mark_refund(p, user_id, charge_id, amount) ==
    /\ Idle(p)
    /\ ncalls' = ncalls + 1
    /\ mark_refund_run(p, [NoCall EXCEPT !.op = "mark_refund", !.user_id = user_id,
                              !.charge_id = charge_id, !.amount = amount])

\* What mark_refund writes once its checks passed, before the ledger INSERT.
mark_refund_updates(d, c, r) ==
    UpdateBalance(
        [d EXCEPT !.payments = [i \in DOMAIN d.payments |->
            IF i = r.id THEN [d.payments[i] EXCEPT !.refunded = TRUE]
            ELSE d.payments[i]]],
        c.user_id, 0 - c.amount)

\* A refund that writes and commits whatever the lock, the snapshot and the
\* unique index say.
mark_refund_update_unfenced(p) ==
    LET bal == <<_get_balance_tx(view[p], call[p].user_id)>>
        d == mark_refund_updates(db, call[p], row[p][1])
    IN /\ pc[p] = "mr_update"
       /\ UNCHANGED ncalls
       /\ db' = commit(db, _insert_transaction(d, call[p].user_id, "refund",
                              call[p].amount, NoUser, call[p].charge_id,
                              _get_balance_tx(d, call[p].user_id)))
       /\ Finish(p, call[p], Return("True"), row[p], bal)

\* UPDATE payments SET refunded=1: the read transaction asks for the write
\* lock; it is refused at once (no busy wait) when another connection holds it
\* or has committed since the snapshot.  Then the balance UPDATE and the
\* INSERT INTO transactions, which the unique index on charge_id may refuse;
\* then conn.commit() and return True.
mark_refund_update(p) ==
    LET bal == <<_get_balance_tx(view[p], call[p].user_id)>> IN
    /\ pc[p] = "mr_update"
    /\ UNCHANGED ncalls
    /\ IF writer # NoWriter \/ view[p] # db
       THEN /\ db' = rollback(db, view[p])
            /\ Finish(p, call[p], Raise("OperationalError"), row[p], bal)
       ELSE LET d == mark_refund_updates(view[p], call[p], row[p][1]) IN
            IF idx_transactions_charge_id(d, call[p].charge_id)
            THEN /\ db' = rollback(db, d)
                 /\ Finish(p, call[p], Raise("IntegrityError"), row[p], bal)
            ELSE /\ db' = commit(db,
                              _insert_transaction(d, call[p].user_id, "refund",
                                  call[p].amount, NoUser, call[p].charge_id,
                                  _get_balance_tx(d, call[p].user_id)))
                 /\ Finish(p, call[p], Return("True"), row[p], bal)

\* ------------------------------------------------------------------ busy
\* A timeout that leaves the waiting call's account upsert behind.
Busy_keeps_upsert(p) ==
    /\ pc[p] \in {"ap_wait", "tr_wait"}
    /\ writer # NoWriter
    /\ db' = _ensure_user_tx(db, call[p].user_id, call[p].username)
    /\ Finish(p, call[p], Raise("OperationalError"), << >>, << >>)
    /\ UNCHANGED ncalls

\* PRAGMA busy_timeout = 5000: a first write that waited that long for the
\* write lock raises OperationalError("database is locked"); nothing was
\* written.
Busy(p) ==
    /\ pc[p] \in {"ap_wait", "tr_wait"}
    /\ writer # NoWriter
    /\ Finish(p, call[p], Raise("OperationalError"), << >>, << >>)
    /\ UNCHANGED <<db, ncalls>>

\* All calls of one behaviour fall within one second of the clock.
Next ==
    \E p \in Procs :
        \/ \E u \in UserIds, n \in Usernames, a \in Amounts, c \in ChargeIds :
              add_purchase(p, u, n, a, c)
        \/ add_purchase_resume(p)
        \/ add_purchase_commit(p)
        \/ \E f \in UserIds, t \in UserIds, a \in Amounts, tn \in ToUsernames :
              transfer(p, f, t, a, FromUsername(f), tn)
        \/ transfer_resume(p)
        \/ transfer_commit(p)
        \/ \E u \in UserIds, c \in ChargeIds, a \in Amounts :
              mark_refund(p, u, c, a)
        \/ mark_refund_update(p)
        \/ Busy(p)

Spec == Init /\ [][Next]_vars

\* One connection at a time, three accounts: the calls run one after another.
SeqUserIds == {1, 2, 3}

NextSeq ==
    \/ \E u \in SeqUserIds, n \in Usernames, a \in Amounts, c \in ChargeIds :
          add_purchase("p1", u, n, a, c)
    \/ add_purchase_commit("p1")
    \/ \E f \in SeqUserIds, t \in SeqUserIds, a \in Amounts, tn \in ToUsernames :
          transfer("p1", f, t, a, FromUsername(f), tn)
    \/ transfer_commit("p1")
    \/ \E u \in SeqUserIds, c \in ChargeIds, a \in Amounts :
          mark_refund("p1", u, c, a)
    \/ mark_refund_update("p1")

SpecSeq == Init /\ [][NextSeq]_vars

\* Two funded accounts, two connections, transfers only.  The funded start is
\* what two committed add_purchase calls leave behind: user 1 ("ann") paid
\* charge c1, user 2 (no username) paid c2.
Purchased(d, user_id, username, amount, charge_id) ==
    add_purchase_writes(_ensure_user_tx(d, user_id, username),
        [NoCall EXCEPT !.op = "add_purchase", !.user_id = user_id,
            !.username = username, !.amount = amount, !.charge_id = charge_id])

InitFunded ==
    /\ now = 0
    /\ \E a1 \in Amounts, a2 \in Amounts :
          db = Purchased(Purchased(EmptyDb, 1, "ann", a1, "c1"), 2, None, a2, "c2")
    /\ writer = NoWriter
    /\ pc = [p \in Procs |-> "idle"]
    /\ call = [p \in Procs |-> NoCall]
    /\ view = [p \in Procs |-> EmptyDb]
    /\ row = [p \in Procs |-> << >>]
    /\ last = NoLast
    /\ ncalls = 0
    /\ hist = NoHist
    /\ telegram = {}

NextTransfers ==
    \E p \in Procs :
        \/ \E f \in UserIds, t \in UserIds, a \in Amounts, tn \in ToUsernames :
              transfer(p, f, t, a, FromUsername(f), tn)
        \/ transfer_resume(p)
        \/ transfer_commit(p)
        \/ Busy(p)

\* Scheduling: a connection that holds the write lock goes on to its commit
\* (the coroutine is resumed by the event loop); a connection waiting for the
\* lock leaves the wait, with the lock or with the busy timeout.
SpecTransfers ==
    /\ InitFunded
    /\ [][NextTransfers]_vars
    /\ \A p \in Procs :
          /\ WF_vars(transfer_commit(p))
          /\ WF_vars(transfer_resume(p) \/ Busy(p))

\* ------------------------------------------------------------- the reads
\* WAL mode: a SELECT on a new connection sees the committed database, never
\* the uncommitted writes of another connection.
read_uncommitted(committed, working) == working

Snapshot(committed, working) == committed

\* the ids of the ledger rows WHERE user_id=?
TxIdsOf(d, user_id) ==
    {i \in DOMAIN d.transactions : d.transactions[i].user_id = user_id}

\* ORDER BY created_at DESC, id DESC: row i comes before row j
TxBefore(d, i, j) ==
    \/ d.transactions[i].created_at > d.transactions[j].created_at
    \/ /\ d.transactions[i].created_at = d.transactions[j].created_at
       /\ i > j

RECURSIVE TxOrdered(_, _)
TxOrdered(d, ids) ==
    IF ids = {} THEN << >>
    ELSE LET first == CHOOSE i \in ids : \A j \in ids \ {i} : TxBefore(d, i, j)
         IN <<first>> \o TxOrdered(d, ids \ {first})

\* A LIMIT that hands out one row less than asked for.
LimitOffset_short(rows, limit, offset) ==
    SubSeq(rows, offset + 1,
           IF offset + limit - 1 < Len(rows) THEN offset + limit - 1 ELSE Len(rows))

\* LIMIT ? OFFSET ?
LimitOffset(rows, limit, offset) ==
    SubSeq(rows, offset + 1,
           IF offset + limit < Len(rows) THEN offset + limit ELSE Len(rows))

\* get_transactions: the rows of the account, newest first, one page of them
\* (each row with its id)
get_transactions_rows(d, user_id, limit, offset) ==
    LET ordered == TxOrdered(d, TxIdsOf(d, user_id))
        page == LimitOffset(ordered, limit, offset)
    IN [k \in DOMAIN page |->
           [id |-> page[k], type |-> d.transactions[page[k]].type,
            amount |-> d.transactions[page[k]].amount,
            balance_after |-> d.transactions[page[k]].balance_after,
            created_at |-> d.transactions[page[k]].created_at]]

\* count_transactions: SELECT COUNT(*) FROM transactions WHERE user_id=?
count_transactions_value(d, user_id) == Cardinality(TxIdsOf(d, user_id))

\* The database after each statement of add_purchase's transaction (after the
\* upsert and the duplicate check): nothing yet, the payments INSERT, the
\* balance UPDATE, the ledger INSERT.
add_purchase_steps(d, c) ==
    LET d1 == InsertPayment(d, c.user_id, c.amount, c.charge_id)
        d2 == UpdateBalance(d1, c.user_id, c.amount)
    IN <<d, d1, d2, add_purchase_writes(d, c)>>

\* The database after each statement of transfer's transaction (after the two
\* upserts and the funds check): the debit, the credit, the transfers INSERT,
\* the sender's ledger INSERT, the receiver's.
transfer_steps(d, c) ==
    LET d1 == UpdateBalance(d, c.user_id, 0 - c.amount)
        d2 == UpdateBalance(d1, c.to_user, c.amount)
        d3 == [d2 EXCEPT !.transfers = Append(@,
                  [from_user_id |-> c.user_id, to_user_id |-> c.to_user,
                   amount |-> c.amount])]
        d4 == _insert_transaction(d3, c.user_id, "gift_out", c.amount,
                  c.to_user, None, _get_balance_tx(d3, c.user_id))
    IN <<d, d1, d2, d3, d4, transfer_writes(d, c)>>

\* The database after each write of mark_refund's transaction: the refunded
\* flag, the balance UPDATE.
mark_refund_steps(d, c, r) ==
    <<d,
      [d EXCEPT !.payments = [i \in DOMAIN d.payments |->
          IF i = r.id THEN [d.payments[i] EXCEPT !.refunded = TRUE]
          ELSE d.payments[i]]],
      mark_refund_updates(d, c, r)>>

\* The uncommitted databases connection p may hold at its position: its
\* transaction has run some of its statements.
Working(p) ==
    LET c == call[p]
        steps ==
          IF pc[p] = "ap_commit"
          THEN add_purchase_steps(_ensure_user_tx(db, c.user_id, c.username), c)
          ELSE IF pc[p] = "tr_commit"
          THEN transfer_steps(
                   _ensure_user_tx(_ensure_user_tx(db, c.user_id, c.username),
                                   c.to_user, c.to_username), c)
          ELSE IF pc[p] = "mr_update" /\ writer = NoWriter /\ view[p] = db
          THEN mark_refund_steps(view[p], c, row[p][1])
          ELSE <<db>>
    IN {steps[k] : k \in DOMAIN steps}

\* A call is interrupted between BEGIN and COMMIT (the awaiting task is
\* cancelled, a statement fails, the process dies): the connection is closed,
\* or its uncommitted WAL frames are ignored from then on.
Interrupt(p) ==
    /\ pc[p] # "idle"
    /\ \E working \in Working(p) : db' = rollback(db, working)
    /\ Finish(p, call[p], Raise("CancelledError"), << >>, << >>)
    /\ UNCHANGED ncalls

\* get_balance inserting the account it does not find.
get_balance_creates(p, user_id) ==
    LET c == [NoCall EXCEPT !.op = "get_balance", !.user_id = user_id]
        bal == _get_balance_tx(db, user_id)
    IN /\ Idle(p)
       /\ ncalls' = ncalls + 1
       /\ db' = IF user_id \in DOMAIN db.users THEN db
                ELSE _ensure_user_tx(db, user_id, None)
       /\ Finish(p, c, Return(ToString(bal)), << >>, <<bal>>)

\* get_balance: one SELECT on a new connection; 0 when there is no row
get_balance(p, user_id) ==
    LET c == [NoCall EXCEPT !.op = "get_balance", !.user_id = user_id] IN
    /\ Idle(p)
    /\ ncalls' = ncalls + 1
    /\ \E q \in Procs : \E working \in Working(q) :
          LET bal == _get_balance_tx(Snapshot(db, working), user_id)
          IN Finish(p, c, Return(ToString(bal)), << >>, <<bal>>)
    /\ UNCHANGED db

\* get_transactions: one SELECT on a new connection
get_transactions(p, user_id, limit, offset) ==
    LET c == [NoCall EXCEPT !.op = "get_transactions", !.user_id = user_id] IN
    /\ Idle(p)
    /\ ncalls' = ncalls + 1
    /\ \E q \in Procs : \E working \in Working(q) :
          Finish(p, c, Return("rows"),
                 get_transactions_rows(Snapshot(db, working), user_id, limit, offset),
                 << >>)
    /\ UNCHANGED db

\* handlers.py: PAGE_SIZE = 20
PAGE_SIZE == 20

\* Two connections, two accounts: the three mutating calls, interrupted at any
\* statement, with reads running beside them.
NextAtomic ==
    \E p \in Procs :
        \/ \E u \in UserIds, a \in Amounts, c \in ChargeIds :
              add_purchase(p, u, FromUsername(u), a, c)
        \/ add_purchase_resume(p)
        \/ add_purchase_commit(p)
        \/ \E f \in UserIds, t \in UserIds, a \in Amounts, tn \in ToUsernames :
              transfer(p, f, t, a, FromUsername(f), tn)
        \/ transfer_resume(p)
        \/ transfer_commit(p)
        \/ \E u \in UserIds, c \in ChargeIds, a \in Amounts :
              mark_refund(p, u, c, a)
        \/ mark_refund_update(p)
        \/ Busy(p)
        \/ Interrupt(p)
        \/ \E u \in UserIds : get_balance(p, u)
        \/ \E u \in UserIds : get_transactions(p, u, PAGE_SIZE, 0)

SpecAtomic == Init /\ [][NextAtomic]_vars

\* ------------------------------------------------------------ the history
\* the clock reaches the next second
MaxNow == 1

Tick ==
    /\ now < MaxNow
    /\ now' = now + 1
    /\ UNCHANGED <<db, writer, pc, call, view, row, last, ncalls, hist, telegram>>

\* page sizes asked of get_transactions (send_history asks PAGE_SIZE)
MaxLimit == 2
Limits == 1 .. MaxLimit
\* pages one user fetches
MaxPages == 4

\* send_history(callback, db, page): offset = page * PAGE_SIZE; one page of
\* get_transactions, read on a new connection.  The user starts at page 0 and
\* asks for the next page until a page comes back empty; hist keeps the pages
\* received, one after the other, and the ledger as it was at page 0.
send_history(user_id, limit) ==
    LET u == IF hist.limit = 0 THEN user_id ELSE hist.user_id
        l == IF hist.limit = 0 THEN limit ELSE hist.limit
        offset == hist.page * l
        items == get_transactions_rows(Snapshot(db, db), u, l, offset)
    IN /\ ~hist.done
       /\ hist.page < MaxPages
       /\ hist.limit = 0 \/ (hist.user_id = user_id /\ hist.limit = limit)
       /\ hist' = [user_id |-> u, limit |-> l, page |-> hist.page + 1,
                   items |-> hist.items \o items,
                   first |-> IF hist.limit = 0 THEN db.transactions ELSE hist.first,
                   done |-> items = << >>]
       /\ UNCHANGED <<db, writer, pc, call, view, row, last, ncalls, now, telegram>>

\* One connection writing (purchases, and transfers of one unit, as the
\* seconds pass) while a user pages through a history.
NextHistory ==
    \/ \E u \in UserIds, a \in Amounts, c \in ChargeIds :
          add_purchase("p1", u, FromUsername(u), a, c)
    \/ add_purchase_commit("p1")
    \/ \E f \in UserIds, t \in UserIds, tn \in ToUsernames :
          transfer("p1", f, t, 1, FromUsername(f), tn)
    \/ transfer_commit("p1")
    \/ Tick
    \/ \E u \in UserIds, l \in Limits : send_history(u, l)

SpecHistory == Init /\ [][NextHistory]_vars

\* ----------------------------------------------------------- the accounts
\* ensure_user: the upsert of _ensure_user_tx as one statement, then commit.
\* (The statement waits while another connection holds the write lock.)
ensure_user(p, user_id, username) ==
    LET c == [NoCall EXCEPT !.op = "ensure_user", !.user_id = user_id,
                 !.username = username]
    IN /\ Idle(p)
       /\ writer = NoWriter
       /\ ncalls' = ncalls + 1
       /\ db' = commit(db, _ensure_user_tx(db, user_id, username))
       /\ Finish(p, c, Return("None"), << >>, << >>)

\* Equal balances listed by descending user_id.
TopBefore_id_desc(d, u, v) ==
    \/ d.users[u].balance > d.users[v].balance
    \/ d.users[u].balance = d.users[v].balance /\ u > v

\* top_balances: ORDER BY balance DESC is answered by a scan of
\* idx_users_balance ON users(balance DESC); the entries of an index are
\* keyed (balance, rowid), and rowid is user_id (INTEGER PRIMARY KEY), so
\* rows of equal balance come in ascending user_id.  Row u comes before row v:
TopBefore(d, u, v) ==
    \/ d.users[u].balance > d.users[v].balance
    \/ d.users[u].balance = d.users[v].balance /\ u < v

RECURSIVE TopOrdered(_, _)
TopOrdered(d, ids) ==
    IF ids = {} THEN << >>
    ELSE LET first == CHOOSE u \in ids : \A v \in ids \ {u} : TopBefore(d, u, v)
         IN <<first>> \o TopOrdered(d, ids \ {first})

\* SELECT user_id, username, balance FROM users ORDER BY balance DESC LIMIT ?
top_balances_rows(d, limit) ==
    LET ordered == LimitOffset(TopOrdered(d, DOMAIN d.users), limit, 0)
    IN [k \in DOMAIN ordered |->
           [user_id |-> ordered[k], username |-> d.users[ordered[k]].username,
            balance |-> d.users[ordered[k]].balance]]

\* top_balances: one SELECT on a new connection
top_balances(p, limit) ==
    LET c == [NoCall EXCEPT !.op = "top_balances", !.limit = limit] IN
    /\ Idle(p)
    /\ ncalls' = ncalls + 1
    /\ Finish(p, c, Return("rows"), top_balances_rows(Snapshot(db, db), limit), << >>)
    /\ UNCHANGED db

\* One connection, three accounts, names that may be empty and amounts that
\* may be zero or negative.
AccUsernames == {None, "", "ann", "bob"}
AccAmounts == {-1, 0, 1}
TopLimits == {1, 2, 3}

NextAccounts ==
    \/ \E u \in SeqUserIds, n \in AccUsernames : ensure_user("p1", u, n)
    \/ \E u \in SeqUserIds : get_balance("p1", u)
    \/ \E u \in SeqUserIds, a \in AccAmounts, c \in ChargeIds :
          add_purchase("p1", u, FromUsername(u), a, c)
    \/ add_purchase_commit("p1")
    \/ \E f \in SeqUserIds, t \in SeqUserIds, a \in AccAmounts, tn \in ToUsernames :
          transfer("p1", f, t, a, FromUsername(f), tn)
    \/ transfer_commit("p1")
    \/ \E l \in TopLimits : top_balances("p1", l)

SpecAccounts == Init /\ [][NextAccounts]_vars

\* ======================================================================
\* Properties
\* ======================================================================
\* A call ends in this step (its outcome is last'): it either ends in the step
\* that starts it, or leaves a waiting or lock-holding position.
CallEnds ==
    \/ ncalls' # ncalls /\ pc' = pc
    \/ \E p \in Procs : pc[p] # "idle" /\ pc'[p] = "idle"

\* the stored balance of an account, 0 when it has no row
Balance(d, u) == IF u \in DOMAIN d.users THEN d.users[u].balance ELSE 0

\* the ids of the payment records of a charge id
Paid(d, ch) == {i \in DOMAIN d.payments : d.payments[i].charge_id = ch}

\* the ids of the ledger entries of one kind carrying a charge id
Entries(d, kind, ch) ==
    {i \in DOMAIN d.transactions :
        d.transactions[i].type = kind /\ d.transactions[i].charge_id = ch}

\* the kinds of the ledger entries of an account
KindsOf(d, u) ==
    {d.transactions[i].type : i \in {j \in DOMAIN d.transactions :
                                        d.transactions[j].user_id = u}}

Signed(e) ==
    IF e.type \in {"purchase", "gift_in"} THEN e.amount ELSE 0 - e.amount

RECURSIVE LedgerSum(_, _, _)
LedgerSum(txs, u, n) ==
    IF n = 0 THEN 0
    ELSE LedgerSum(txs, u, n - 1)
         + (IF txs[n].user_id = u THEN Signed(txs[n]) ELSE 0)

\* C1: in every committed state, each account's stored balance is the sum of
\* its ledger entries taken with sign (+ purchase, gift_in; - gift_out,
\* refund), and an id without an account has no ledger entry.
C1_BalanceIsLedgerSum ==
    \A u \in UserIds :
        /\ Balance(db, u) = LedgerSum(db.transactions, u, Len(db.transactions))
        /\ u \notin DOMAIN db.users => KindsOf(db, u) = {}

\* an account that bought and then gave part away still holds a balance
C1_Witness ==
    \E u \in DOMAIN db.users :
        /\ db.users[u].balance > 0
        /\ {"purchase", "gift_out"} \subseteq KindsOf(db, u)

\* C2: an add_purchase call that is not turned away by the busy timeout
\* returns True and credits amount once when its charge id has no payment
\* record, and returns False leaving the whole database as it was (no account
\* created or renamed) when the charge id already has one.
C2_PurchaseIdempotent ==
    [][(/\ CallEnds
        /\ last'.call.op = "add_purchase"
        /\ last'.result # Raise("OperationalError"))
       => LET c == last'.call IN
          IF Paid(db, c.charge_id) # {}
          THEN last'.result = Return("False") /\ db' = db
          ELSE /\ last'.result = Return("True")
               /\ Cardinality(Paid(db', c.charge_id)) = 1
               /\ Balance(db', c.user_id) = Balance(db, c.user_id) + c.amount
               /\ \A u \in UserIds \ {c.user_id} : Balance(db', u) = Balance(db, u)
      ]_vars

\* a repeated charge id was turned down and the account it names was not made
C2_Witness ==
    /\ last.call.op = "add_purchase"
    /\ last.result = Return("False")
    /\ last.call.user_id \notin DOMAIN db.users

\* C3: whatever the interleaving of add_purchase calls, a charge id never has
\* more than one payment record, it has as many purchase ledger entries as
\* payment records, a call returns True only in the step that creates the one
\* record of its charge id and raises the balance by amount, and once a call
\* for a charge id has returned, that charge id has exactly one record.
C3_ExactlyOnceCredit ==
    [][/\ \A ch \in ChargeIds :
            /\ Cardinality(Paid(db', ch)) <= 1
            /\ Cardinality(Entries(db', "purchase", ch)) = Cardinality(Paid(db', ch))
            /\ Paid(db, ch) \subseteq Paid(db', ch)
       /\ (CallEnds /\ last'.call.op = "add_purchase" /\ last'.result.kind = "return")
          => LET c == last'.call IN
             /\ Cardinality(Paid(db', c.charge_id)) = 1
             /\ last'.result = Return("True")
                => /\ Paid(db, c.charge_id) = {}
                   /\ Balance(db', c.user_id) = Balance(db, c.user_id) + c.amount
             /\ last'.result = Return("False") => db' = db
      ]_vars

\* one call has just credited a charge id while another call carrying the
\* same charge id is waiting for the write lock
C3_Witness ==
    /\ last.call.op = "add_purchase"
    /\ last.result = Return("True")
    /\ \E q \in Procs : pc[q] = "ap_wait" /\ call[q].charge_id = last.call.charge_id

\* C4: no committed balance is negative.
C4_BalanceNeverNegative ==
    \A u \in DOMAIN db.users : db.users[u].balance >= 0

\* an account spent everything it had
C4_Witness ==
    \E u \in DOMAIN db.users :
        db.users[u].balance = 0 /\ "gift_out" \in KindsOf(db, u)

\* C5: a transfer call (not turned away by the busy timeout) whose amount is
\* above the sender's balance raises insufficient_funds and leaves the whole
\* database as it was.
C5_TransferInsufficient ==
    [][(/\ CallEnds
        /\ last'.call.op = "transfer"
        /\ last'.result # Raise("OperationalError")
        /\ last'.call.amount > Balance(db, last'.call.user_id))
       => /\ last'.result = Raise("ValueError: insufficient_funds")
          /\ db' = db
      ]_vars

\* a sender with some balance asked for more, and the receiver was not made
C5_Witness ==
    /\ last.call.op = "transfer"
    /\ last.result = Raise("ValueError: insufficient_funds")
    /\ last.current_balance = <<1>>
    /\ last.call.to_user \notin DOMAIN db.users

\* C6: a transfer between two different accounts that returns moves amount
\* from the sender's balance to the receiver's, appends one transfers row and
\* exactly two ledger entries (gift_out for the sender, gift_in for the
\* receiver, each naming the other), and changes no payment, no earlier
\* ledger entry and no other account.
C6_TransferMoves ==
    [][(/\ CallEnds
        /\ last'.call.op = "transfer"
        /\ last'.result.kind = "return"
        /\ last'.call.user_id # last'.call.to_user)
       => LET c == last'.call
              n == Len(db.transactions)
          IN /\ Balance(db', c.user_id) = Balance(db, c.user_id) - c.amount
             /\ Balance(db', c.to_user) = Balance(db, c.to_user) + c.amount
             /\ Balance(db', c.user_id) + Balance(db', c.to_user)
                = Balance(db, c.user_id) + Balance(db, c.to_user)
             /\ db'.transfers = Append(db.transfers,
                   [from_user_id |-> c.user_id, to_user_id |-> c.to_user,
                    amount |-> c.amount])
             /\ Len(db'.transactions) = n + 2
             /\ SubSeq(db'.transactions, 1, n) = db.transactions
             /\ \E i, j \in {n + 1, n + 2} :
                   /\ i # j
                   /\ db'.transactions[i].type = "gift_out"
                   /\ db'.transactions[i].user_id = c.user_id
                   /\ db'.transactions[i].related_user_id = c.to_user
                   /\ db'.transactions[i].amount = c.amount
                   /\ db'.transactions[j].type = "gift_in"
                   /\ db'.transactions[j].user_id = c.to_user
                   /\ db'.transactions[j].related_user_id = c.user_id
                   /\ db'.transactions[j].amount = c.amount
             /\ db'.payments = db.payments
             /\ \A u \in SeqUserIds \ {c.user_id, c.to_user} :
                   /\ u \in DOMAIN db'.users <=> u \in DOMAIN db.users
                   /\ u \in DOMAIN db.users => db'.users[u] = db.users[u]
      ]_vars

\* a transfer between two accounts has returned its id while a third account
\* holds a balance
C6_Witness ==
    /\ last.call.op = "transfer"
    /\ last.result.kind = "return"
    /\ last.call.user_id # last.call.to_user
    /\ Len(db.transfers) > 0
    /\ \E u \in DOMAIN db.users \ {last.call.user_id, last.call.to_user} :
          db.users[u].balance > 0

\* the checks of a refund as the claims state them, on a committed database
RefundPreconditions(d, c) ==
    \E i \in DOMAIN d.payments :
        /\ d.payments[i].charge_id = c.charge_id
        /\ d.payments[i].user_id = c.user_id
        /\ ~d.payments[i].refunded
        /\ d.payments[i].amount = c.amount
        /\ Balance(d, c.user_id) >= c.amount

\* C7: a mark_refund call for an existing, not yet refunded payment of that
\* account, with the recorded amount and a balance that covers it, returns
\* True, flags the payment, lowers the balance by amount and appends one
\* refund ledger entry carrying the charge id.
C7_RefundSucceeds ==
    [][(/\ CallEnds
        /\ last'.call.op = "mark_refund"
        /\ last'.result # Raise("OperationalError")
        /\ RefundPreconditions(db, last'.call))
       => LET c == last'.call IN
          /\ last'.result = Return("True")
          /\ \A i \in Paid(db', c.charge_id) : db'.payments[i].refunded
          /\ Balance(db', c.user_id) = Balance(db, c.user_id) - c.amount
          /\ Cardinality(Entries(db', "refund", c.charge_id)) = 1
          /\ Cardinality(Entries(db', "purchase", c.charge_id)) = 1
      ]_vars

\* the call that ended last was a refund whose checks all passed
RefundWasDue(l) ==
    /\ l.call.op = "mark_refund"
    /\ l.result # Raise("OperationalError")
    /\ l.row # << >>
    /\ ~l.row[1].refunded
    /\ l.row[1].amount = l.call.amount
    /\ l.current_balance # << >>
    /\ l.current_balance[1] >= l.call.amount

RefundCause(l) ==
    IF l.call.op # "mark_refund" THEN "none"
    ELSE IF l.row = << >> THEN "NotFound"
    ELSE IF l.row[1].refunded THEN "AlreadyRefunded"
    ELSE IF l.row[1].amount # l.call.amount THEN "AmountMismatch"
    ELSE IF l.current_balance # << >> /\ l.current_balance[1] < l.call.amount
         THEN "InsufficientFunds"
    ELSE "none"

\* C9: two refund calls turned down for different causes end in outcomes the
\* caller can tell apart.
C9_RefundCausesDistinct ==
    [][(/\ CallEnds
        /\ RefundCause(last) # "none"
        /\ RefundCause(last') # "none"
        /\ RefundCause(last) # RefundCause(last'))
       => last'.result # last.result
      ]_vars

\* C10: a mark_refund call that does not return True leaves the committed
\* database (refunded flags, balances, ledger) as it was.
C10_FailedRefundNoEffect ==
    [][(/\ CallEnds
        /\ last'.call.op = "mark_refund"
        /\ last'.result # Return("True"))
       => db' = db
      ]_vars

\* a refund was turned down because the purchased units had been given away
C10_Witness ==
    /\ RefundCause(last) = "InsufficientFunds"
    /\ last.result = Return("False")
    /\ "gift_out" \in KindsOf(db, last.call.user_id)
    /\ \A i \in Paid(db, last.call.charge_id) : ~db.payments[i].refunded

\* connection q has a transfer in flight in the direction opposite to call c
OppositeInFlight(q, c) ==
    /\ pc[q] # "idle"
    /\ call[q].op = "transfer"
    /\ call[q].user_id = c.to_user
    /\ call[q].to_user = c.user_id

\* a transfer between two different accounts ends in this step while a
\* transfer in the opposite direction is in flight on another connection, and
\* the committed balance of its sender covers its amount
OppositeTransferEnds ==
    /\ CallEnds
    /\ last'.call.op = "transfer"
    /\ last'.call.user_id # last'.call.to_user
    /\ Balance(db, last'.call.user_id) >= last'.call.amount
    /\ \E q \in Procs : pc'[q] = pc[q] /\ OppositeInFlight(q, last'.call)

\* C11 as claimed: of two concurrent transfers in opposite directions between
\* two accounts, each with sufficient funds, each one commits (returns its
\* transfer id), and the sum of the two balances stays what it was.
C11_OppositeBothCommit ==
    [][OppositeTransferEnds
       => /\ last'.result.kind = "return"
          /\ Balance(db', 1) + Balance(db', 2) = Balance(db, 1) + Balance(db, 2)
      ]_vars

\* C11 amended: the two transfers never deadlock (every call that started
\* ends); the one holding the write lock commits; the other commits after it
\* or is turned away by the busy timeout with no effect; and the sum of the
\* two balances is the same in every committed state.
C11_OppositeNoDeadlock ==
    /\ [][OppositeTransferEnds
          => \/ /\ last'.result.kind = "return"
                /\ Balance(db', last'.call.user_id)
                      = Balance(db, last'.call.user_id) - last'.call.amount
                /\ Balance(db', last'.call.to_user)
                      = Balance(db, last'.call.to_user) + last'.call.amount
             \/ /\ last'.result = Raise("OperationalError")
                /\ db' = db
                /\ \E q \in Procs : writer = q /\ OppositeInFlight(q, last'.call)
         ]_vars
    /\ [][Balance(db', 1) + Balance(db', 2) = Balance(db, 1) + Balance(db, 2)]_vars
    /\ [][\A p \in Procs : (pc[p] = "tr_commit" /\ pc'[p] = "idle")
                              => last'.result.kind = "return"]_vars
    /\ \A p \in Procs : (pc[p] # "idle") ~> (pc[p] = "idle")

\* one of the two transfers has committed while the opposite one, whose
\* sender has the funds, is still waiting for the write lock
C11_Witness ==
    /\ last.call.op = "transfer"
    /\ last.result.kind = "return"
    /\ last.call.user_id # last.call.to_user
    /\ \E q \in Procs :
          /\ pc[q] = "tr_wait"
          /\ OppositeInFlight(q, last.call)
          /\ Balance(db, call[q].user_id) >= call[q].amount

\* call c takes amount from the balance of account u
Debits(c, u) == c.op \in {"transfer", "mark_refund"} /\ c.user_id = u

\* the outcome r is the success value of call c
Succeeded(c, r) ==
    \/ c.op = "transfer" /\ r.kind = "return"
    \/ c.op \in {"add_purchase", "mark_refund"} /\ r = Return("True")

\* what call c, when it succeeds, takes from the balance of its account
Taken(c) == IF c.op = "transfer" /\ c.to_user = c.user_id THEN 0 ELSE c.amount

\* C12: debits of one account (transfers, refunds) never interleave their
\* read-check-write.  A debit succeeds only when the latest committed balance
\* covers its amount, and then leaves exactly that balance less the amount,
\* never below 0 (no update is lost); a debit that ends when the committed
\* balance is below its amount (as after a concurrent debit committed first)
\* fails and changes nothing.  So of two concurrent debits that each fit the
\* balance but not together, at most one commits.
C12_DebitsSerialised ==
    [][\A u \in UserIds :
          (CallEnds /\ Debits(last'.call, u))
          => /\ Succeeded(last'.call, last'.result)
                => /\ Balance(db, u) >= last'.call.amount
                   /\ Balance(db', u) = Balance(db, u) - Taken(last'.call)
                   /\ Balance(db', u) >= 0
             /\ ~Succeeded(last'.call, last'.result) => db' = db
             /\ Balance(db, u) < last'.call.amount
                => ~Succeeded(last'.call, last'.result)
      ]_vars

\* one debit has committed while another debit of the same account is still
\* in flight, whose amount fitted the balance before but no longer does
C12_Witness ==
    \E u \in UserIds, q \in Procs :
        /\ Debits(last.call, u)
        /\ Succeeded(last.call, last.result)
        /\ last.call.to_user # u
        /\ pc[q] # "idle"
        /\ Debits(call[q], u)
        /\ call[q].amount > Balance(db, u)
        /\ call[q].amount <= Balance(db, u) + last.call.amount

\* the ledger entries of one kind
EntriesOfKind(d, kind) ==
    {i \in DOMAIN d.transactions : d.transactions[i].type = kind}

\* a database with no half-applied operation in it: every balance is the
\* signed sum of the account's entries, every transfer has both its entries
\* (no debit without the credit), every payment has its purchase entry, and a
\* payment is flagged refunded exactly when its refund entry is there
Whole(d) ==
    /\ \A u \in UserIds :
          Balance(d, u) = LedgerSum(d.transactions, u, Len(d.transactions))
    /\ Cardinality(EntriesOfKind(d, "gift_out")) = Len(d.transfers)
    /\ Cardinality(EntriesOfKind(d, "gift_in")) = Len(d.transfers)
    /\ Cardinality(EntriesOfKind(d, "purchase")) = Len(d.payments)
    /\ \A i \in DOMAIN d.payments :
          d.payments[i].refunded
             <=> Entries(d, "refund", d.payments[i].charge_id) # {}

\* C13: every mutation is all-or-nothing.  A call of add_purchase, transfer or
\* mark_refund that is interrupted at any statement, or ends in an error,
\* leaves the committed database as it was before the call; every committed
\* database is whole; and a concurrent get_balance or get_transactions
\* returns what the committed database holds, never the uncommitted writes of
\* a call in flight.
C13_AllOrNothing ==
    [][/\ Whole(db')
       /\ (CallEnds /\ last'.result.kind = "raise") => db' = db
       /\ (CallEnds /\ last'.call.op = "get_balance")
          => /\ last'.current_balance = <<Balance(db, last'.call.user_id)>>
             /\ db' = db
       /\ (CallEnds /\ last'.call.op = "get_transactions")
          => /\ last'.row = get_transactions_rows(db, last'.call.user_id, PAGE_SIZE, 0)
             /\ Len(last'.row) = Cardinality(TxIdsOf(db, last'.call.user_id))
             /\ db' = db
      ]_vars

\* a balance was read while a transfer from that account, holding the write
\* lock, had its debit not yet committed
C13_Witness ==
    /\ last.call.op = "get_balance"
    /\ last.current_balance # << >>
    /\ last.current_balance[1] > 0
    /\ \E q \in Procs :
          /\ pc[q] = "tr_commit"
          /\ call[q].user_id = last.call.user_id
          /\ call[q].to_user # call[q].user_id

\* the ids of the rows received so far, page after page
HistIds == [k \in DOMAIN hist.items |-> hist.items[k].id]

\* no row was received twice
HistDistinct ==
    \A j, k \in DOMAIN hist.items : j # k => hist.items[j].id # hist.items[k].id

\* the ledger did not change since page 0 was fetched (it only ever grows)
Quiescent == hist.limit # 0 /\ db.transactions = hist.first

\* C14: in a quiescent store, the pages of get_transactions at offsets 0,
\* limit, 2*limit, ... up to the first empty page, put one after the other,
\* are exactly the count_transactions rows of the account, each once, in
\* non-increasing (created_at, id) order, also when entries share created_at.
C14_PaginationComplete ==
    (hist.done /\ Quiescent)
    => /\ Len(hist.items) = count_transactions_value(db, hist.user_id)
       /\ {HistIds[k] : k \in DOMAIN HistIds} = TxIdsOf(db, hist.user_id)
       /\ HistDistinct
       /\ \A k \in 1 .. Len(hist.items) - 1 :
             \/ hist.items[k].created_at > hist.items[k + 1].created_at
             \/ /\ hist.items[k].created_at = hist.items[k + 1].created_at
                /\ hist.items[k].id > hist.items[k + 1].id

\* three pages and the empty one were fetched from a quiescent ledger in which
\* two entries of the account share created_at and a third is younger
C14_Witness ==
    /\ hist.done
    /\ Quiescent
    /\ hist.page >= 4
    /\ \E j, k \in DOMAIN hist.items :
          j # k /\ hist.items[j].created_at = hist.items[k].created_at
    /\ \E j, k \in DOMAIN hist.items :
          hist.items[j].created_at # hist.items[k].created_at

\* C15: when entries of the account are appended between the page fetches, no
\* row is returned on two pages, and once the empty page is reached no row
\* that existed when page 0 was fetched has been skipped.
C15_PagesStableUnderAppends ==
    /\ HistDistinct
    /\ hist.done
       => TxIdsOf([transactions |-> hist.first], hist.user_id)
             \subseteq {HistIds[k] : k \in DOMAIN HistIds}

\* row k of a top_balances result ranks before row k + 1: its balance is
\* higher, or the balances are equal and its user_id is lower
RankedBefore(r1, r2) ==
    \/ r1.balance > r2.balance
    \/ r1.balance = r2.balance /\ r1.user_id < r2.user_id

C17_NameNeverErased ==
    [][(/\ CallEnds
        /\ last'.call.op = "ensure_user"
        /\ last'.call.user_id \in DOMAIN db.users
        /\ db.users[last'.call.user_id].username \notin {None, ""}
        /\ last'.call.username \in {None, ""})
       => db'.users[last'.call.user_id].username
             = db.users[last'.call.user_id].username
      ]_vars

\* C18: ensure_user creates an absent account with balance 0, never changes
\* the balance of an existing one, changes no other account and no payment,
\* transfer or ledger row, and a second call with the same arguments changes
\* nothing at all.
C18_EnsureUserIdempotent ==
    [][(CallEnds /\ last'.call.op = "ensure_user")
       => LET u == last'.call.user_id IN
          /\ u \in DOMAIN db'.users
          /\ DOMAIN db'.users = DOMAIN db.users \cup {u}
          /\ db'.users[u].balance = Balance(db, u)
          /\ \A v \in DOMAIN db.users \ {u} : db'.users[v] = db.users[v]
          /\ db'.payments = db.payments
          /\ db'.transfers = db.transfers
          /\ db'.transactions = db.transactions
          /\ last.call = last'.call => db' = db
      ]_vars

\* the last of the calls was an ensure_user naming "bob" an account that
\* holds a balance
C18_Witness ==
    /\ last.call.op = "ensure_user"
    /\ last.call.username = "bob"
    /\ last.call.user_id \in DOMAIN db.users
    /\ db.users[last.call.user_id].balance > 0
    /\ ncalls = MaxCalls

\* C19: get_balance returns the stored balance, 0 for an id with no account,
\* and changes nothing: no account is created.
C19_GetBalanceReadOnly ==
    [][(CallEnds /\ last'.call.op = "get_balance")
       => LET u == last'.call.user_id IN
          /\ last'.result.kind = "return"
          /\ last'.current_balance
                = <<IF u \in DOMAIN db.users THEN db.users[u].balance ELSE 0>>
          /\ db' = db
          /\ DOMAIN db'.users = DOMAIN db.users
      ]_vars

\* the balance of an id with no account was read as 0 while other accounts
\* exist
C19_Witness ==
    /\ last.call.op = "get_balance"
    /\ last.call.user_id \notin DOMAIN db.users
    /\ last.current_balance = <<0>>
    /\ DOMAIN db.users # {}

\* C20: an add_purchase call with amount <= 0 is rejected before any write: it
\* does not return True and leaves no payment record, no ledger entry and no
\* balance change.
C20_PurchaseAmountValidated ==
    [][(CallEnds /\ last'.call.op = "add_purchase" /\ last'.call.amount <= 0)
       => /\ last'.result # Return("True")
          /\ db' = db
      ]_vars

\* C21: a transfer call with amount <= 0 raises the validation error
\* (ValueError, amount must be positive) and leaves the whole database as it
\* was: no account is created or renamed, nothing is written.
C21_TransferAmountValidated ==
    [][(CallEnds /\ last'.call.op = "transfer" /\ last'.call.amount <= 0)
       => /\ last'.result = Raise("ValueError: amount must be positive")
          /\ db' = db
      ]_vars

\* a transfer of nothing between two ids without accounts was turned down,
\* in a database that holds other accounts
C21_Witness ==
    /\ last.call.op = "transfer"
    /\ last.call.amount = 0
    /\ last.result = Raise("ValueError: amount must be positive")
    /\ last.call.user_id # last.call.to_user
    /\ last.call.user_id \notin DOMAIN db.users
    /\ last.call.to_user \notin DOMAIN db.users
    /\ DOMAIN db.users # {}

\* ---------------------------------------------------------------------------
\* The end-to-end scenario: one connection, an empty database, the amounts of
\* the scenario (100 bought, 60 given, 100 asked back) and room for its five
\* calls.
ScenarioCalls == 5
ScenarioAmounts == {60, 100}

InitScenario ==
    /\ db = EmptyDb
    /\ writer = NoWriter
    /\ pc = [p \in Procs |-> "idle"]
    /\ call = [p \in Procs |-> NoCall]
    /\ view = [p \in Procs |-> EmptyDb]
    /\ row = [p \in Procs |-> << >>]
    /\ last = NoLast
    /\ ncalls = MaxCalls - ScenarioCalls
    /\ now = 0
    /\ hist = NoHist
    /\ telegram = {}

NextScenario ==
    \/ \E u \in UserIds, a \in ScenarioAmounts, c \in ChargeIds :
          add_purchase("p1", u, FromUsername(u), a, c)
    \/ add_purchase_commit("p1")
    \/ \E f \in UserIds, t \in UserIds, a \in ScenarioAmounts, tn \in ToUsernames :
          transfer("p1", f, t, a, FromUsername(f), tn)
    \/ transfer_commit("p1")
    \/ \E u \in UserIds, c \in ChargeIds, a \in ScenarioAmounts :
          mark_refund("p1", u, c, a)
    \/ mark_refund_update("p1")

SpecScenario == InitScenario /\ [][NextScenario]_vars

\* the arguments of the scenario's calls
ScenarioCall(c, op, user_id, amount) ==
    /\ c.op = op
    /\ c.user_id = user_id
    /\ c.amount = amount
    /\ op \in {"add_purchase", "mark_refund"} => c.charge_id = "c1"
    /\ op = "transfer" => c.to_user = 2

\* after the purchase: A holds 100, one payment, one purchase entry
ScenarioBought(d) ==
    /\ DOMAIN d.users = {1}
    /\ Balance(d, 1) = 100
    /\ Len(d.payments) = 1
    /\ d.payments[1].user_id = 1 /\ d.payments[1].amount = 100
    /\ d.payments[1].charge_id = "c1" /\ ~d.payments[1].refunded
    /\ Len(d.transfers) = 0
    /\ Len(d.transactions) = 1
    /\ d.transactions[1].user_id = 1 /\ d.transactions[1].type = "purchase"
    /\ d.transactions[1].amount = 100 /\ d.transactions[1].charge_id = "c1"
    /\ d.transactions[1].balance_after = 100

\* after the gift: A holds 40, B holds 60, the ledger has the two gift entries
ScenarioGiven(d) ==
    /\ DOMAIN d.users = {1, 2}
    /\ Balance(d, 1) = 40 /\ Balance(d, 2) = 60
    /\ Len(d.payments) = 1 /\ ~d.payments[1].refunded
    /\ d.payments[1].charge_id = "c1" /\ d.payments[1].amount = 100
    /\ Len(d.transfers) = 1
    /\ d.transfers[1] = [from_user_id |-> 1, to_user_id |-> 2, amount |-> 60]
    /\ Len(d.transactions) = 3
    /\ d.transactions[1].type = "purchase"
    /\ d.transactions[2].user_id = 1 /\ d.transactions[2].type = "gift_out"
    /\ d.transactions[2].amount = 60 /\ d.transactions[2].related_user_id = 2
    /\ d.transactions[2].balance_after = 40
    /\ d.transactions[3].user_id = 2 /\ d.transactions[3].type = "gift_in"
    /\ d.transactions[3].amount = 60 /\ d.transactions[3].related_user_id = 1
    /\ d.transactions[3].balance_after = 60

\* C22: the end-to-end scenario, step by step from the empty database:
\* add_purchase(A, 100, c1) returns True and leaves A = 100 with one purchase
\* entry of balance_after 100; the same call again returns False and changes
\* nothing; transfer(A, B, 60) returns the transfer id and leaves A = 40,
\* B = 60 with gift_out balance_after 40 and gift_in balance_after 60;
\* mark_refund(A, c1, 100) with A = 40 fails (returns False) and changes
\* nothing, the refunded flag included; transfer(A, B, 100) with A = 40
\* raises insufficient_funds and changes nothing.
C22_Scenario ==
    [][CallEnds =>
        /\ (db = EmptyDb /\ ScenarioCall(last'.call, "add_purchase", 1, 100))
              => last'.result = Return("True") /\ ScenarioBought(db')
        /\ (ScenarioBought(db) /\ ScenarioCall(last'.call, "add_purchase", 1, 100))
              => last'.result = Return("False") /\ db' = db
        /\ (ScenarioBought(db) /\ ScenarioCall(last'.call, "transfer", 1, 60))
              => last'.result = Return("1") /\ ScenarioGiven(db')
        /\ (ScenarioGiven(db) /\ ScenarioCall(last'.call, "mark_refund", 1, 100))
              => /\ last'.result = Return("False")
                 /\ last'.current_balance = <<40>>
                 /\ db' = db
        /\ (ScenarioGiven(db) /\ ScenarioCall(last'.call, "transfer", 1, 100))
              => /\ last'.result = Raise("ValueError: insufficient_funds")
                 /\ db' = db
      ]_vars

\* the scenario ran to its end: the fifth call, the gift of 100, was turned
\* down with A at 40 and B at 60
C22_Witness ==
    /\ ncalls = MaxCalls
    /\ ScenarioGiven(db)
    /\ ScenarioCall(last.call, "transfer", 1, 100)
    /\ last.result = Raise("ValueError: insufficient_funds")

\* C23: every ledger entry's balance_after is its account's running balance:
\* the sum, with sign, of the account's entries up to and including that
\* entry in id order; also for a transfer from an account to itself.
C23_BalanceAfterIsRunningSum ==
    \A i \in DOMAIN db.transactions :
        db.transactions[i].balance_after
            = LedgerSum(db.transactions, db.transactions[i].user_id, i)

\* two mark_refund calls name the same account and charge id
SameRefund(c1, c2) ==
    /\ c1.op = "mark_refund" /\ c2.op = "mark_refund"
    /\ c1.user_id = c2.user_id
    /\ c1.charge_id = c2.charge_id

\* another connection has a mark_refund for the same account and charge id
\* in flight, past its checks, while the call c ends
RivalInFlight(c) ==
    \E q \in Procs :
        /\ pc[q] = "mr_update" /\ pc'[q] = "mr_update"
        /\ SameRefund(call[q], c)

\* C24: of two mark_refund calls for the same account and charge id that
\* overlap, at most one returns True: whichever ends, the charge id has at
\* most one refund ledger entry and the balance went down by the amount at
\* most once over both calls, a call that does not return True changes
\* nothing, and the call that ends second does not return True when the first
\* did.
C24_ConcurrentRefunds ==
    [][(/\ CallEnds
        /\ last'.call.op = "mark_refund"
        /\ RivalInFlight(last'.call) \/ SameRefund(last.call, last'.call))
       => LET c == last'.call IN
          /\ Cardinality(Entries(db', "refund", c.charge_id)) <= 1
          /\ last'.result # Return("True") => db' = db
          /\ last'.result = Return("True")
                => /\ Balance(db', c.user_id) = Balance(db, c.user_id) - c.amount
                   /\ Entries(db, "refund", c.charge_id) = {}
          /\ (SameRefund(last.call, c) /\ last.result = Return("True"))
                => last'.result # Return("True")
      ]_vars

\* the first of two overlapping refunds of one payment ended without effect
\* while the second, past its checks, is still to write
C24_Witness ==
    /\ last.call.op = "mark_refund"
    /\ last.result.kind = "raise"
    /\ \E q \in Procs :
          /\ pc[q] = "mr_update"
          /\ SameRefund(call[q], last.call)
          /\ call[q].amount = last.call.amount
    /\ \A i \in Paid(db, last.call.charge_id) : ~db.payments[i].refunded
    /\ Entries(db, "refund", last.call.charge_id) = {}

\* the rows of s are the first rows of t, unchanged
IsPrefix(s, t) == Len(s) <= Len(t) /\ \A i \in DOMAIN s : t[i] = s[i]

\* the ledger entries a call that ended with outcome r has appended
Appended(c, r) ==
    IF ~Succeeded(c, r) THEN 0
    ELSE IF c.op = "transfer" THEN 2
    ELSE IF c.op \in {"add_purchase", "mark_refund"} THEN 1
    ELSE 0

\* C25: the audit trail is append-only and the refunded flag monotonic.  In
\* every step the ledger and the transfers table keep their rows unchanged
\* under their ids and new rows get higher ids, no account disappears, a
\* payment keeps its fields and a refunded flag that is set stays set; the
\* database changes only when a call ends, and a call that succeeded has
\* appended exactly one ledger entry (add_purchase, mark_refund) or exactly
\* two (transfer: gift_out for the sender, gift_in for the receiver), any
\* other call none.
C25_AppendOnly ==
    [][/\ IsPrefix(db.transactions, db'.transactions)
       /\ IsPrefix(db.transfers, db'.transfers)
       /\ DOMAIN db.users \subseteq DOMAIN db'.users
       /\ Len(db.payments) <= Len(db'.payments)
       /\ \A i \in DOMAIN db.payments :
             /\ [db'.payments[i] EXCEPT !.refunded = FALSE]
                   = [db.payments[i] EXCEPT !.refunded = FALSE]
             /\ db.payments[i].refunded => db'.payments[i].refunded
       /\ ~CallEnds => db' = db
       /\ CallEnds =>
             LET n == Len(db.transactions)
                 c == last'.call
             IN /\ Len(db'.transactions) = n + Appended(c, last'.result)
                /\ (c.op = "transfer" /\ Succeeded(c, last'.result)) =>
                      /\ db'.transactions[n + 1].type = "gift_out"
                      /\ db'.transactions[n + 1].user_id = c.user_id
                      /\ db'.transactions[n + 2].type = "gift_in"
                      /\ db'.transactions[n + 2].user_id = c.to_user
                /\ (c.op = "add_purchase" /\ Succeeded(c, last'.result)) =>
                      /\ db'.transactions[n + 1].type = "purchase"
                      /\ db'.transactions[n + 1].user_id = c.user_id
      ]_vars

\* a transfer has just added its two entries behind an older purchase entry
C25_Witness ==
    /\ last.call.op = "transfer"
    /\ last.result.kind = "return"
    /\ Len(db.transactions) = 3
    /\ db.transactions[1].type = "purchase"
    /\ db.transactions[2].type = "gift_out"
    /\ db.transactions[3].type = "gift_in"
    /\ db.transactions[2].user_id # db.transactions[3].user_id

\* C26: in every committed state a payment is flagged refunded exactly when
\* one refund ledger entry carries its charge id; there is never more than
\* one such entry, it names the payment's account and amount, and the
\* account's balance is the signed sum of its entries, so the debit is there
\* exactly when the entry is.  Flag, entry and debit are committed together
\* or not at all, also when the call is interrupted or fails midway.
C26_RefundConsistent ==
    \A i \in DOMAIN db.payments :
        LET pm == db.payments[i]
            refs == Entries(db, "refund", pm.charge_id)
        IN /\ pm.refunded <=> Cardinality(refs) = 1
           /\ Cardinality(refs) <= 1
           /\ \A j \in refs : /\ db.transactions[j].user_id = pm.user_id
                              /\ db.transactions[j].amount = pm.amount
           /\ Balance(db, pm.user_id)
                 = LedgerSum(db.transactions, pm.user_id, Len(db.transactions))

\* a refund that had passed its checks, set the flag and debited the balance
\* failed at its ledger INSERT: the payment is unflagged, the balance whole
C26_Witness ==
    /\ RefundWasDue(last)
    /\ last.result = Raise("IntegrityError")
    /\ Balance(db, last.call.user_id) = last.current_balance[1]
    /\ \A i \in Paid(db, last.call.charge_id) : ~db.payments[i].refunded
    /\ Entries(db, "refund", last.call.charge_id) = {}

\* ---------------------------------------------------------------------------
\* get_payment_for_amount
\* WHERE user_id=? AND amount=? AND refunded=0 : the ids of the matching rows
PaymentsForAmount(d, user_id, amount) ==
    {i \in DOMAIN d.payments :
        /\ d.payments[i].user_id = user_id
        /\ d.payments[i].amount = amount
        /\ ~d.payments[i].refunded}

\* An ORDER BY created_at ASC.
NewestPayments_oldest(d, ids) ==
    {i \in ids : \A j \in ids : d.payments[i].created_at <= d.payments[j].created_at}

\* ORDER BY created_at DESC LIMIT 1: the rows that may come first.  No index
\* covers the query and created_at has a resolution of one second, so SQL
\* leaves the order among rows of one second open.
NewestPayments(d, ids) ==
    {i \in ids : \A j \in ids : d.payments[j].created_at <= d.payments[i].created_at}

\* SELECT id, charge_id, refunded, amount
PaymentRow(d, i) ==
    [id |-> i, charge_id |-> d.payments[i].charge_id,
     refunded |-> d.payments[i].refunded, amount |-> d.payments[i].amount]

\* fetchone(): what the SELECT may give, the first row or nothing
get_payment_for_amount_rows(d, user_id, amount) ==
    LET ids == PaymentsForAmount(d, user_id, amount)
    IN IF ids = {} THEN {<< >>}
       ELSE {<<PaymentRow(d, i)>> : i \in NewestPayments(d, ids)}

\* get_payment_for_amount: one SELECT on a new connection; returns
\* dict(row) if row else None
get_payment_for_amount(p, user_id, amount) ==
    LET c == [NoCall EXCEPT !.op = "get_payment_for_amount",
                 !.user_id = user_id, !.amount = amount] IN
    /\ Idle(p)
    /\ ncalls' = ncalls + 1
    /\ \E q \in Procs : \E working \in Working(q) :
          \E r \in get_payment_for_amount_rows(Snapshot(db, working), user_id, amount) :
             Finish(p, c, IF r = << >> THEN Return("None") ELSE Return("row"), r, << >>)
    /\ UNCHANGED db

\* Purchases made over two seconds, refund attempts and lookups, one call
\* after another.
NextPayments ==
    \/ \E u \in UserIds, a \in Amounts, c \in ChargeIds :
          add_purchase("p1", u, FromUsername(u), a, c)
    \/ add_purchase_commit("p1")
    \/ \E u \in UserIds, c \in ChargeIds, a \in Amounts :
          mark_refund("p1", u, c, a)
    \/ mark_refund_update("p1")
    \/ Tick
    \/ \E u \in UserIds, a \in Amounts : get_payment_for_amount("p1", u, a)

SpecPayments == Init /\ [][NextPayments]_vars

\* C27: get_payment_for_amount changes nothing and returns a row exactly when
\* the account has an unrefunded payment of that amount (None otherwise); the
\* row returned is a payment of that account, of that amount, not refunded,
\* with its own charge id, and no other such payment has a later created_at.
C27_RefundCandidate ==
    [][(CallEnds /\ last'.call.op = "get_payment_for_amount")
       => LET c == last'.call
              match == {i \in DOMAIN db.payments :
                          /\ db.payments[i].user_id = c.user_id
                          /\ db.payments[i].amount = c.amount
                          /\ ~db.payments[i].refunded}
          IN /\ db' = db
             /\ last'.row # << >> <=> match # {}
             /\ last'.result = IF match = {} THEN Return("None") ELSE Return("row")
             /\ last'.row # << >> =>
                   LET r == last'.row[1] IN
                   /\ r.id \in match
                   /\ r.amount = c.amount
                   /\ ~r.refunded
                   /\ r.charge_id = db.payments[r.id].charge_id
                   /\ \A j \in match :
                         db.payments[j].created_at <= db.payments[r.id].created_at
      ]_vars

\* of two payments of one amount made by one account in different seconds,
\* the later one was returned
C27_Witness ==
    /\ last.call.op = "get_payment_for_amount"
    /\ last.row # << >>
    /\ \E j \in DOMAIN db.payments :
          /\ j # last.row[1].id
          /\ db.payments[j].user_id = last.call.user_id
          /\ db.payments[j].amount = last.call.amount
          /\ db.payments[j].created_at < db.payments[last.row[1].id].created_at

\* connection p asks for the write lock and cannot have it: its first write
\* waits while another connection holds the lock, or its read transaction
\* (mark_refund) wants to write while the lock is held or its snapshot is stale
LockRefused(p) ==
    \/ pc[p] \in {"ap_wait", "tr_wait"} /\ writer # NoWriter
    \/ pc[p] = "mr_update" /\ (writer # NoWriter \/ view[p] # db)

\* C28: a call of add_purchase, transfer or mark_refund that ends without
\* having obtained the write lock raises OperationalError (database is
\* locked): it returns no success value and the committed database is as it
\* was; and whenever a call raises that error nothing was written.
C28_BusySurfaces ==
    [][/\ \A p \in Procs :
             (LockRefused(p) /\ pc'[p] = "idle")
                => /\ last'.call = call[p]
                   /\ last'.result = Raise("OperationalError")
                   /\ ~Succeeded(last'.call, last'.result)
                   /\ db' = db
       /\ (CallEnds /\ last'.result = Raise("OperationalError")) => db' = db
      ]_vars

\* a purchase for a new account gave up waiting while a transfer on the
\* other connection held the write lock: the account was not created
C28_Witness ==
    /\ last.call.op = "add_purchase"
    /\ last.result = Raise("OperationalError")
    /\ last.call.user_id \notin DOMAIN db.users
    /\ \E q \in Procs : writer = q /\ pc[q] = "tr_commit"

\* ---------------------------------------------------------------------------
\* The refund handler (callback "refund:<amount>").  Its task uses connection
\* p for the Database calls it awaits, one after another.
\* payment = await db.get_payment_for_amount(user_id, amount); without one
\* the handler answers and returns
refund(p, user_id, amount) ==
    LET c == [NoCall EXCEPT !.op = "get_payment_for_amount",
                 !.user_id = user_id, !.amount = amount] IN
    /\ Idle(p)
    /\ ncalls' = ncalls + 1
    /\ \E q \in Procs : \E working \in Working(q) :
          \E r \in get_payment_for_amount_rows(Snapshot(db, working), user_id, amount) :
             IF r = << >>
             THEN /\ Finish(p, c, Return("None"), r, << >>)
                  /\ UNCHANGED db
             ELSE /\ call' = [call EXCEPT ![p] =
                                [NoCall EXCEPT !.op = "refund", !.user_id = user_id,
                                    !.amount = amount, !.charge_id = r[1].charge_id]]
                  /\ row' = [row EXCEPT ![p] = r]
                  /\ pc' = [pc EXCEPT ![p] = "rf_provider"]
                  /\ UNCHANGED <<db, writer, view, last, now, hist, telegram>>

\* ok = await bot.refund_star_payment(user_id, payment["charge_id"]): Telegram
\* refunds the charge and returns True, or returns False, or the request
\* raises; in the last two cases the handler answers and returns
refund_star_payment(p) ==
    /\ pc[p] = "rf_provider"
    /\ UNCHANGED ncalls
    /\ \/ /\ telegram' = telegram \cup {call[p].charge_id}
          /\ pc' = [pc EXCEPT ![p] = "rf_mark"]
          /\ UNCHANGED <<db, writer, call, view, row, last, now, hist>>
       \/ /\ \E r \in {Return("False"), Raise("TelegramError")} :
                Finish(p, call[p], r, row[p], << >>)
          /\ UNCHANGED db

\* success = await db.mark_refund(user_id, payment["charge_id"], amount); the
\* handler then only answers (after True it reads the balance to show it)
refund_mark(p) ==
    /\ pc[p] = "rf_mark"
    /\ UNCHANGED ncalls
    /\ mark_refund_run(p, [NoCall EXCEPT !.op = "mark_refund",
                              !.user_id = call[p].user_id,
                              !.charge_id = call[p].charge_id,
                              !.amount = call[p].amount])

\* Purchases, gifts and refund clicks on two connections.
NextRefund ==
    \E p \in Procs :
        \/ \E u \in UserIds, a \in Amounts, c \in ChargeIds :
              add_purchase(p, u, FromUsername(u), a, c)
        \/ add_purchase_resume(p)
        \/ add_purchase_commit(p)
        \/ \E f \in UserIds, t \in UserIds, a \in Amounts, tn \in ToUsernames :
              transfer(p, f, t, a, FromUsername(f), tn)
        \/ transfer_resume(p)
        \/ transfer_commit(p)
        \/ Busy(p)
        \/ \E u \in UserIds, a \in Amounts : refund(p, u, a)
        \/ refund_star_payment(p)
        \/ refund_mark(p)
        \/ mark_refund_update(p)

SpecRefund == Init /\ [][NextRefund]_vars

\* a refund handler is between Telegram's refund of charge id ch and the end
\* of its mark_refund call
RefundInFlight(ch) ==
    \E p \in Procs : pc[p] \in {"rf_mark", "mr_update"} /\ call[p].charge_id = ch

\* C29: the provider and the ledger agree at the end of the refund handler:
\* once Telegram has refunded a charge id and no handler is still working on
\* it, the payment is flagged refunded and has its refund entry (with which
\* the balance was debited).
C29_ProviderAndLedgerAgree ==
    \A ch \in telegram :
        RefundInFlight(ch)
        \/ /\ \E i \in Paid(db, ch) : db.payments[i].refunded
           /\ Entries(db, "refund", ch) # {}

\* ---------------------------------------------------------------------------
\* The gift handlers.  A message text is a sequence of characters.
Digit == ("0" :> 0) @@ ("1" :> 1) @@ ("2" :> 2)

\* str.strip(): leading and trailing blanks removed
RECURSIVE strip(_)
strip(raw) ==
    IF raw = << >> THEN raw
    ELSE IF Head(raw) = " " THEN strip(Tail(raw))
    ELSE IF raw[Len(raw)] = " " THEN strip(SubSeq(raw, 1, Len(raw) - 1))
    ELSE raw

\* str.isdigit(): not empty, digits only
isdigit(raw) == raw # << >> /\ \A i \in DOMAIN raw : raw[i] \in DOMAIN Digit

\* int(raw) of a string of digits
RECURSIVE int(_)
int(raw) ==
    IF raw = << >> THEN 0
    ELSE 10 * int(SubSeq(raw, 1, Len(raw) - 1)) + Digit[raw[Len(raw)]]

\* parse_user_ref: <<id>> for "@<digits>" or "<digits>", << >> for None
parse_user_ref(raw) ==
    IF raw = << >> THEN << >>
    ELSE LET s == strip(raw)
             t == IF s # << >> /\ Head(s) = "@" THEN Tail(s) ELSE s
         IN IF isdigit(t) THEN <<int(t)>> ELSE << >>

\* the texts users send as recipient
RawRefs ==
    {<< >>, <<"a">>, <<"@">>, <<"1">>, <<"@", "2">>, <<" ", "2", " ">>,
     <<"1", "2">>, <<"@", "@", "1">>, <<"0", "1">>}

\* A check that lets every recipient through.
gift_to_self_unchecked(recipient_id, sender_id) == FALSE

\* if recipient_id == message.from_user.id / if recipient_id == sender_id
gift_to_self(recipient_id, sender_id) == recipient_id = sender_id

\* gift_recipient: the message of a user asked for a recipient.  message.text
\* stripped and parsed; no user or the sender himself: an answer, nothing
\* else; otherwise ensure_user for the sender and the amount keyboard.
gift_recipient(p, sender_id, text) ==
    LET recipient_id == parse_user_ref(strip(text))
        c == [NoCall EXCEPT !.op = "gift_recipient", !.user_id = sender_id,
                 !.to_user = IF recipient_id = << >> THEN NoUser
                             ELSE recipient_id[1]]
    IN IF recipient_id = << >>
       THEN /\ Idle(p)
            /\ ncalls' = ncalls + 1
            /\ Finish(p, c, Return("not understood"), << >>, << >>)
            /\ UNCHANGED db
       ELSE IF gift_to_self(recipient_id[1], sender_id)
       THEN /\ Idle(p)
            /\ ncalls' = ncalls + 1
            /\ Finish(p, c, Return("self"), << >>, << >>)
            /\ UNCHANGED db
       ELSE ensure_user(p, sender_id, FromUsername(sender_id))

\* gift_amount: the callback "gift:<recipient_id>:<amount>".  The sender
\* himself as recipient: an answer, nothing else.  Then get_balance, one
\* SELECT on a new connection; a balance below the amount: an answer, nothing
\* else.  Otherwise the handler goes on to db.transfer.
gift_amount(p, sender_id, recipient_id, amount) ==
    LET c == [NoCall EXCEPT !.op = "gift_amount", !.user_id = sender_id,
                 !.to_user = recipient_id, !.amount = amount]
    IN /\ Idle(p)
       /\ ncalls' = ncalls + 1
       /\ IF gift_to_self(recipient_id, sender_id)
          THEN /\ Finish(p, c, Return("self"), << >>, << >>)
               /\ UNCHANGED db
          ELSE \E q \in Procs : \E working \in Working(q) :
                 LET balance == _get_balance_tx(Snapshot(db, working), sender_id)
                 IN IF balance < amount
                    THEN /\ Finish(p, c, Return("insufficient"), << >>, <<balance>>)
                         /\ UNCHANGED db
                    ELSE /\ call' = [call EXCEPT ![p] =
                               [NoCall EXCEPT !.op = "transfer",
                                   !.user_id = sender_id,
                                   !.username = FromUsername(sender_id),
                                   !.amount = amount, !.to_user = recipient_id,
                                   !.to_username = None]]
                         /\ pc' = [pc EXCEPT ![p] = "gift_transfer"]
                         /\ UNCHANGED <<db, writer, view, row, last, now, hist, telegram>>

\* await db.transfer(from_user=sender_id, to_user=recipient_id, ...); the
\* handler then only answers (ValueError is caught and answered; after the
\* transfer it reads the balance to show it)
gift_transfer(p) ==
    /\ pc[p] = "gift_transfer"
    /\ UNCHANGED ncalls
    /\ transfer_call(p, call[p])

\* Purchases, recipient messages and gift callbacks on two connections.
NextGifts ==
    \E p \in Procs :
        \/ \E u \in UserIds, a \in Amounts, c \in ChargeIds :
              add_purchase(p, u, FromUsername(u), a, c)
        \/ add_purchase_resume(p)
        \/ add_purchase_commit(p)
        \/ \E u \in UserIds, text \in RawRefs : gift_recipient(p, u, text)
        \/ \E s \in UserIds, r \in UserIds, a \in Amounts : gift_amount(p, s, r, a)
        \/ gift_transfer(p)
        \/ transfer_resume(p)
        \/ transfer_commit(p)
        \/ Busy(p)

SpecGifts == Init /\ [][NextGifts]_vars

\* connection p carries a transfer the gift handler is about to make, is
\* making, or has just made
GiftTransfers ==
    {call[p] : p \in {q \in Procs : pc[q] \in {"gift_transfer", "tr_wait", "tr_commit"}}}
    \cup (IF last.call.op = "transfer" THEN {last.call} ELSE {})

\* C30: the gift handlers never call Database.transfer with the sender as
\* recipient: every transfer a handler is about to make, is making or has
\* made names two different accounts, as does every row of the transfers
\* table; a recipient message never leads to a transfer; and a gift callback
\* goes on to transfer only when the sender's committed balance, as
\* get_balance reads it, is at least the amount.
C30_GiftRules ==
    [][/\ \A c \in GiftTransfers' : c.user_id # c.to_user
       /\ \A i \in DOMAIN db'.transfers :
             db'.transfers[i].from_user_id # db'.transfers[i].to_user_id
       /\ \A p \in Procs :
             (pc[p] = "idle" /\ pc'[p] # "idle" /\ call'[p].op = "transfer")
                => /\ pc'[p] = "gift_transfer"
                   /\ Balance(db, call'[p].user_id) >= call'[p].amount
       /\ (CallEnds /\ last'.call.op \in {"gift_recipient", "ensure_user"})
             => \A p \in Procs : pc[p] = "idle" => pc'[p] = "idle"
       /\ (CallEnds /\ last'.call.op = "gift_amount")
             => /\ db' = db
                /\ \/ last'.call.user_id = last'.call.to_user
                   \/ Balance(db, last'.call.user_id) < last'.call.amount
      ]_vars

\* a gift callback naming the sender himself was answered without a transfer
\* although the sender's balance covered the amount
C30_Witness ==
    /\ last.call.op = "gift_amount"
    /\ last.call.user_id = last.call.to_user
    /\ last.result = Return("self")
    /\ Balance(db, last.call.user_id) >= last.call.amount
    /\ db.transfers = << >>

====
